---- MODULE Spec2Model ----
(***************************************************************************)
(* ResourceList Item (src/components/ResourceList/components/Item/Item.tsx) *)
(* as a state machine: the row's props and list context, its three state   *)
(* flags, the closures React.useCallback keeps between renders, and the    *)
(* effects of the last dispatched event.  Beside it, the two components    *)
(* that register with the Frame: ContextualSaveBar and Loading.            *)
(***************************************************************************)
EXTENDS Integers, Sequences, FiniteSets, TLC

\* ------------------------------------------------------------------ bounds
\* Number of distinct row ids the environment can supply.
NumIds == 1
\* Number of distinct external callbacks (identities) per callback prop.
NumCallbacks == 1
\* Number of calls the Frame receives from one ContextualSaveBar before its
\* parent stops re-rendering it.
MaxFrameCalls == 3
\* Number of Loading instances the page mounts.
NumLoading == 3

\* --------------------------------------------------------------- constants
\* `id == null`: the id is unset.
NoId == 0
\* `onClick = noop`: the default of the onClick prop.
noop == 0
\* `onSelectionChange == null`: no callback in the list context.
NoCallback == 0

Ids == 1..NumIds
Callbacks == 1..NumCallbacks
\* A falsy url (absent or empty).
NoUrl == ""
Urls == {"/item"}

\* The three values `selected` takes: isSelected() returns `undefined` when
\* selectedItems is falsy, a boolean otherwise.
JsUndefined == "undefined"
JsFalse == "false"
JsTrue == "true"
\* JavaScript truthiness of such a value.
Truthy(v) == v = JsTrue
\* JavaScript `!v`.
Not(v) == ~Truthy(v)

\* The sentinel of ../../types.
SELECT_ALL_ITEMS == "All"
\* selectedItems?: string[] | 'All'
SelectedItemsValues ==
    {[tag |-> "undefined", items |-> {}], [tag |-> SELECT_ALL_ITEMS, items |-> {}]}
        \cup {[tag |-> "array", items |-> s] : s \in SUBSET Ids}

\* shortcutActions?: DisableableAction[]  (absent, zero-length, non-empty)
ShortcutActionsValues == {"undefined", "empty", "some"}

VARIABLES
    props,                      \* id, url, onClick, persistActions, shortcutActions
    context,                    \* selectable, selectMode, loading, onSelectionChange, selectedItems
    actionsMenuVisible,         \* useState(false)
    focused,                    \* useState({focused: false, ...})
    focusedInner,               \* useState({..., focusedInner: false})
    selected,                   \* const selected = isSelected() of the last render
    handleSelection,            \* closure kept by useCallback, deps [id, onSelectionChange]
    handleLargerSelectionArea,  \* closure kept by useCallback, deps [selected]
    handleClick,                \* closure kept by useCallback, deps [selectMode, onClick, url]
    handleKeypress,             \* closure kept by useCallback, deps [selectMode]
    compareEventNode,           \* closure reached from handleBlur, deps []
    activeElement,              \* the element of the row that holds the focus, or "none"
    pendingFocus,               \* focus moved inside the row: blur dispatched, focus not yet
    everFocused,                \* history: focused has been true since mount
    event,                      \* the last dispatched event (kind and inputs)
    effects,                    \* what the handlers of that event did outside the row
    saveBar,                    \* the ContextualSaveBar: status, props, deps of its effect
    frameCalls,                 \* the calls the Frame received from the ContextualSaveBar
    appBridge,                  \* usePolaris().appBridge of the current render
    loadings,                   \* the Loading instances: status, closure, ref, calls
    frameLoading,               \* frame.startLoading() and frame.stopLoading() calls so far
    bridgeLoading               \* START and STOP actions dispatched to the host bridge so far

state == <<actionsMenuVisible, focused, focusedInner>>
closures == <<selected, handleSelection, handleLargerSelectionArea, handleClick,
              handleKeypress, compareEventNode>>
focus == <<activeElement, pendingFocus>>
frameComponents == <<saveBar, frameCalls, appBridge, loadings, frameLoading, bridgeLoading>>
vars == <<props, context, state, closures, focus, everFocused, event, effects,
          frameComponents>>

\* Props = PropsWithUrl | PropsWithClick: a url or an onClick is supplied.
HasActivation(p) == p.url # NoUrl \/ p.onClick # noop

PropsValues ==
    {p \in [id : Ids \cup {NoId}, url : Urls \cup {NoUrl}, onClick : Callbacks \cup {noop},
            persistActions : BOOLEAN, shortcutActions : ShortcutActionsValues] :
        HasActivation(p)}

ContextValues ==
    [selectable : BOOLEAN, selectMode : BOOLEAN, loading : BOOLEAN,
     onSelectionChange : Callbacks \cup {NoCallback}, selectedItems : SelectedItemsValues]

\* ----------------------------------------------------------------- effects
\* selection: calls of onSelectionChange, <<callback, value, id>>
\* activation: calls of onClick, [callback, args] with args the argument list
\* opened: window.open(url, '_blank') requests
\* anchorClicks: number of anchor.click() calls
\* stopped: event.stopPropagation() was called
NoEffects ==
    [selection |-> <<>>, activation |-> <<>>, opened |-> <<>>, anchorClicks |-> 0,
     stopped |-> FALSE]

\* ------------------------------------------------------------------ render
IsSelectedDropsSentinel(id, selectedItems) ==
    IF selectedItems.tag = "undefined" THEN JsUndefined
    ELSE IF selectedItems.tag = "array" /\ id \in selectedItems.items THEN JsTrue
    ELSE JsFalse

IsSelected(id, selectedItems) ==
    IF selectedItems.tag = "undefined" THEN JsUndefined
    ELSE IF \/ selectedItems.tag = "array" /\ id \in selectedItems.items
            \/ selectedItems.tag = SELECT_ALL_ITEMS
         THEN JsTrue
         ELSE JsFalse

\* React.useCallback(fn, deps): the closure of this render when a dependency
\* differs from the one of the render that made the kept closure.
UseCallback(kept, keptDeps, fresh, deps) == IF deps = keptDeps THEN kept ELSE fresh

NewHandleSelection(p, c) == [id |-> p.id, onSelectionChange |-> c.onSelectionChange]

RenderHandleSelection(p, c) ==
    UseCallback(handleSelection,
                <<handleSelection.id, handleSelection.onSelectionChange>>,
                NewHandleSelection(p, c),
                <<p.id, c.onSelectionChange>>)

NewHandleLargerSelectionArea(sel, hs) == [selected |-> sel, handleSelection |-> hs]

RenderHandleLargerSelectionArea(p, c) ==
    UseCallback(handleLargerSelectionArea,
                <<handleLargerSelectionArea.selected>>,
                NewHandleLargerSelectionArea(IsSelected(p.id, c.selectedItems),
                                             RenderHandleSelection(p, c)),
                <<IsSelected(p.id, c.selectedItems)>>)

NewHandleClick(p, c, hlsa) ==
    [selectMode |-> c.selectMode, onClick |-> p.onClick, url |-> p.url, id |-> p.id,
     handleLargerSelectionArea |-> hlsa]

RenderHandleClick(p, c) ==
    UseCallback(handleClick,
                <<handleClick.selectMode, handleClick.onClick, handleClick.url>>,
                NewHandleClick(p, c, RenderHandleLargerSelectionArea(p, c)),
                <<c.selectMode, p.onClick, p.url>>)

NewHandleKeypress(p, c) == [selectMode |-> c.selectMode, onClick |-> p.onClick]

RenderHandleKeypress(p, c) ==
    UseCallback(handleKeypress, <<handleKeypress.selectMode>>,
                NewHandleKeypress(p, c), <<c.selectMode>>)

\* The first render: every useCallback keeps the closure of that render.
Mount(p, c) ==
    /\ props = p
    /\ context = c
    /\ actionsMenuVisible = FALSE
    /\ focused = FALSE
    /\ focusedInner = FALSE
    /\ selected = IsSelected(p.id, c.selectedItems)
    /\ handleSelection = NewHandleSelection(p, c)
    /\ handleLargerSelectionArea =
           NewHandleLargerSelectionArea(IsSelected(p.id, c.selectedItems),
                                        NewHandleSelection(p, c))
    /\ handleClick =
           NewHandleClick(p, c,
               NewHandleLargerSelectionArea(IsSelected(p.id, c.selectedItems),
                                            NewHandleSelection(p, c)))
    /\ handleKeypress = NewHandleKeypress(p, c)
    /\ compareEventNode = [onClick |-> p.onClick]
    /\ activeElement = "none"
    /\ pendingFocus = FALSE
    /\ everFocused = FALSE
    /\ event = [kind |-> "mount"]
    /\ effects = NoEffects

\* A later render with props p and context c.
Render(p, c) ==
    /\ <<p, c>> # <<props, context>>
    /\ props' = p
    /\ context' = c
    /\ selected' = IsSelected(p.id, c.selectedItems)
    /\ handleSelection' = RenderHandleSelection(p, c)
    /\ handleLargerSelectionArea' = RenderHandleLargerSelectionArea(p, c)
    /\ handleClick' = RenderHandleClick(p, c)
    /\ handleKeypress' = RenderHandleKeypress(p, c)
    /\ UNCHANGED <<state, compareEventNode, focus, everFocused, frameComponents>>
    /\ event' = [kind |-> "render"]
    /\ effects' = NoEffects

\* ---------------------------------------------------------------- handlers
\* A handler runs on s = [focused, focusedInner, actionsMenuVisible, effects]:
\* the state its setState calls have produced so far in this event, and the
\* effects so far.
Current ==
    [focused |-> focused, focusedInner |-> focusedInner,
     actionsMenuVisible |-> actionsMenuVisible, effects |-> NoEffects]

StopPropagationForgets(s) == s

\* event.stopPropagation()
StopPropagation(s) == [s EXCEPT !.effects.stopped = TRUE]

\* onSelectionChange(value, id)
OnSelectionChange(callback, value, id, s) ==
    [s EXCEPT !.effects.selection = Append(@, <<callback, value, id>>)]

\* onClick(...args); the default, noop, does nothing.
OnClick(callback, args, s) ==
    IF callback = noop THEN s
    ELSE [s EXCEPT !.effects.activation = Append(@, [callback |-> callback, args |-> args])]

\* window.open(url, '_blank')
WindowOpen(url, s) == [s EXCEPT !.effects.opened = Append(@, url)]

HandleAnchorFocus(s) == [s EXCEPT !.focused = TRUE, !.focusedInner = FALSE]

HandleFocusedBlur(s) == [s EXCEPT !.focused = TRUE, !.focusedInner = TRUE]

HandleFocusClearsInner(s) == [s EXCEPT !.focused = TRUE, !.focusedInner = FALSE]

HandleFocus(s) == [s EXCEPT !.focused = TRUE]

HandleMouseDown(s) == [s EXCEPT !.focusedInner = TRUE]

\* The elements of the row that can hold the focus: the primary element
\* (UnstyledLink or button), an anchor of the content, another control.
Focusable == {"primary", "anchor", "other"}
\* node.current, the root element; it has no tabIndex.
Root == "root"
Outside == "outside"

\* node.current.contains(element)
Contains(element) == element \in Focusable \cup {Root}

\* element.tagName.toLowerCase()
TagName(element, p) ==
    CASE element = "primary" -> (IF p.url # NoUrl THEN "a" ELSE "button")
      [] element = "anchor" -> "a"
      [] element = Root -> "div"
      [] OTHER -> "input"

\* cen: the compareEventNode closure that is called; e: the blur event.
CompareEventNode(cen, e) ==
    IF cen.onClick # noop THEN e.target = Root ELSE e.tagName = "a"

\* handleBlur has no dependencies: it calls the compareEventNode of the
\* first render.
HandleBlur(cen, e, s) ==
    IF ~Contains(e.relatedTarget) THEN [s EXCEPT !.focused = FALSE]
    ELSE IF CompareEventNode(cen, e) THEN [s EXCEPT !.focusedInner = TRUE]
    ELSE s

HandleSelectionUnguarded(hs, value, s) ==
    OnSelectionChange(hs.onSelectionChange, value, hs.id,
                      [s EXCEPT !.focused = TRUE, !.focusedInner = TRUE])

HandleSelectionKeepsFocus(hs, value, s) ==
    IF hs.id = NoId \/ hs.onSelectionChange = NoCallback THEN s
    ELSE OnSelectionChange(hs.onSelectionChange, value, hs.id, s)

\* hs: the handleSelection closure that is called.
HandleSelection(hs, value, s) ==
    IF hs.id = NoId \/ hs.onSelectionChange = NoCallback THEN s
    ELSE OnSelectionChange(hs.onSelectionChange, value, hs.id,
                           [s EXCEPT !.focused = TRUE, !.focusedInner = TRUE])

\* hl: the handleLargerSelectionArea closure that is called.
HandleLargerSelectionArea(hl, s) ==
    HandleSelection(hl.handleSelection, Not(hl.selected), StopPropagation(s))

\* anchor.click(): a click event on the anchor, which bubbles to the root's
\* onClick, the handleClick of the current render, with the anchor as target.
AnchorClickEvent == [target |-> "anchor", ctrlKey |-> FALSE, metaKey |-> FALSE, anchor |-> TRUE]

RECURSIVE HandleClick(_, _, _)
AnchorClick(hc, s) ==
    HandleClick(hc, AnchorClickEvent, [s EXCEPT !.effects.anchorClicks = @ + 1])

HandleClickOpensAndClicks(hc, e, s) ==
    IF hc.selectMode THEN HandleLargerSelectionArea(hc.handleLargerSelectionArea, s)
    ELSE IF e.anchor /\ e.target = "anchor" THEN s
    ELSE LET called == IF hc.onClick # noop THEN OnClick(hc.onClick, <<hc.id>>, s) ELSE s
             opened == IF hc.url # NoUrl /\ (e.ctrlKey \/ e.metaKey)
                        THEN WindowOpen(hc.url, called) ELSE called
         IN  IF hc.url # NoUrl /\ e.anchor
              THEN [opened EXCEPT !.effects.anchorClicks = @ + 1] ELSE opened

HandleClickInterceptsAnchor(hc, e, s) ==
    IF hc.selectMode THEN HandleLargerSelectionArea(hc.handleLargerSelectionArea, s)
    ELSE LET called == IF hc.onClick # noop THEN OnClick(hc.onClick, <<hc.id>>, s) ELSE s
         IN  IF hc.url # NoUrl /\ (e.ctrlKey \/ e.metaKey) THEN WindowOpen(hc.url, called)
             ELSE IF hc.url # NoUrl /\ e.anchor /\ e.target # "anchor"
                  THEN [called EXCEPT !.effects.anchorClicks = @ + 1]
             ELSE called

\* hc: the handleClick closure that is called; e: the click event, with
\* e.anchor = (node.current.querySelector('a') is an element) and
\* e.target = "anchor" when the event's target is that element.
HandleClick(hc, e, s) ==
    IF hc.selectMode THEN HandleLargerSelectionArea(hc.handleLargerSelectionArea, s)
    ELSE IF e.anchor /\ e.target = "anchor" THEN s
    ELSE LET called == IF hc.onClick # noop THEN OnClick(hc.onClick, <<hc.id>>, s) ELSE s
         IN  IF hc.url # NoUrl /\ (e.ctrlKey \/ e.metaKey) THEN WindowOpen(hc.url, called)
             ELSE IF hc.url # NoUrl /\ e.anchor THEN AnchorClick(hc, called)
             ELSE called

\* hk: the handleKeypress closure that is called.
HandleKeypress(hk, key, s) ==
    IF key = "Enter" /\ ~hk.selectMode THEN OnClick(hk.onClick, <<>>, s) ELSE s

HandleActionsClickOpens(s) == [s EXCEPT !.actionsMenuVisible = TRUE]

HandleActionsClick(s) == [s EXCEPT !.actionsMenuVisible = ~@]

HandleCloseRequestBlurs(s) == [s EXCEPT !.actionsMenuVisible = FALSE, !.focused = FALSE]

HandleCloseRequest(s) == [s EXCEPT !.actionsMenuVisible = FALSE]

\* ------------------------------------------------------------------ markup
\* `if (shortcutActions && !loading)`: an array, also an empty one, is truthy.
ActionsRendered(p, c) == p.shortcutActions # "undefined" /\ ~c.loading

\* actionsMarkup: null, the plain button group or the segmented one.
ActionsMarkup(p, c) ==
    IF ActionsRendered(p, c)
    THEN (IF p.persistActions THEN "ButtonGroup" ELSE "ButtonGroup segmented")
    ELSE "null"

\* disclosureMarkup: null or the Popover, with its `active` prop.
DisclosureMarkup(p, c, visible) ==
    IF ActionsRendered(p, c) /\ p.persistActions
    THEN [markup |-> "Popover", active |-> visible]
    ELSE [markup |-> "null", active |-> FALSE]

\* The selection handle (larger selection area and checkbox) is rendered.
HandleMarkup(c) == c.selectable

\* The primary element: the UnstyledLink when url is truthy, else the button.
AccessibleMarkup(p) == IF p.url # NoUrl THEN "UnstyledLink" ELSE "button"

\* ----------------------------------------------------------------- events
\* The state and the effects an event's handlers leave.
Deliver(e, s) ==
    /\ focused' = s.focused
    /\ focusedInner' = s.focusedInner
    /\ actionsMenuVisible' = s.actionsMenuVisible
    /\ everFocused' = (everFocused \/ s.focused)
    /\ effects' = s.effects
    /\ event' = e
    /\ UNCHANGED <<props, context, closures, frameComponents>>

\* An event that does not move the focus; none is dispatched between the
\* blur and the focus of one move of the focus.
Dispatch(e, s) ==
    /\ ~pendingFocus
    /\ Deliver(e, s)
    /\ UNCHANGED focus

\* The focus event of `element` can be dispatched: the focus enters the row,
\* or it was moved to this element by the blur just dispatched.
CanFocus(element) ==
    IF pendingFocus THEN activeElement = element ELSE activeElement = "none"

ClickTargets == {"content", "anchor", "button"}

\* A click inside the row, outside the handle, the actions and the
\* disclosure: on the inner button (whose own onClick is handleClick, and
\* from which the event bubbles to the root unless propagation was stopped),
\* on the first anchor of the row, or elsewhere.
Click ==
    \E target \in ClickTargets, ctrlKey \in BOOLEAN, metaKey \in BOOLEAN, anchor \in BOOLEAN :
        /\ target = "anchor" => anchor
        /\ target = "button" => AccessibleMarkup(props) = "button"
        /\ LET e == [target |-> target, ctrlKey |-> ctrlKey, metaKey |-> metaKey,
                     anchor |-> anchor]
               inner == IF target = "button" THEN HandleClick(handleClick, e, Current)
                        ELSE Current
               root == IF inner.effects.stopped THEN inner
                       ELSE HandleClick(handleClick, e, inner)
           IN  Dispatch([kind |-> "click"] @@ e, root)

\* The click event of a click on the handle, the actions or the disclosure,
\* as the root's handler would see it.
InnerClickEvent ==
    [target |-> "content", ctrlKey |-> FALSE, metaKey |-> FALSE,
     anchor |-> AccessibleMarkup(props) = "UnstyledLink"]

\* The click bubbles to the root's onClick unless propagation was stopped.
BubbleToRoot(s) ==
    IF s.effects.stopped THEN s ELSE HandleClick(handleClick, InnerClickEvent, s)

\* The click bubbles to the larger selection area's onClick, then to the
\* root's, unless propagation was stopped.
BubbleToHandle(s) ==
    BubbleToRoot(IF s.effects.stopped THEN s
                 ELSE HandleLargerSelectionArea(handleLargerSelectionArea, s))

Keys == {"Enter", " "}

\* A key-up inside the row.
KeyUp ==
    \E key \in Keys :
        Dispatch([kind |-> "keyup", key |-> key], HandleKeypress(handleKeypress, key, Current))

\* A change of the checkbox, to `value`; the checkbox is disabled while
\* loading, and its wrapper stops the click.
ChangeCheckbox ==
    \E value \in BOOLEAN :
        /\ HandleMarkup(context)
        /\ ~context.loading
        /\ Dispatch([kind |-> "change", value |-> value],
                    BubbleToHandle(
                        StopPropagation(HandleSelection(handleSelection, value, Current))))

\* A click on the larger selection area around the checkbox.
ClickLargerSelectionArea ==
    /\ HandleMarkup(context)
    /\ Dispatch([kind |-> "clickLargerSelectionArea"], BubbleToHandle(Current))

\* The primary element (link or button) receives focus; the focus event
\* bubbles to the root.
FocusAnchor ==
    /\ CanFocus("primary")
    /\ Deliver([kind |-> "focusAnchor"], HandleFocus(HandleAnchorFocus(Current)))
    /\ activeElement' = "primary"
    /\ pendingFocus' = FALSE

\* Another element of the row receives focus.
Focus ==
    \E element \in Focusable \ {"primary"} :
        /\ CanFocus(element)
        /\ Deliver([kind |-> "focus"], HandleFocus(Current))
        /\ activeElement' = element
        /\ pendingFocus' = FALSE

\* The element that holds the focus loses it, to relatedTarget: another
\* element of the row or something outside. The primary element's own onBlur
\* is handleFocusedBlur; the event then bubbles to the root's handleBlur.
Blur ==
    \E relatedTarget \in Focusable \cup {Outside} :
        /\ ~pendingFocus
        /\ activeElement # "none"
        /\ ~(activeElement = "primary" /\ relatedTarget = "primary")
        /\ LET e == [kind |-> "blur", target |-> activeElement,
                     tagName |-> TagName(activeElement, props),
                     relatedTarget |-> relatedTarget]
               inner == IF activeElement = "primary" THEN HandleFocusedBlur(Current)
                        ELSE Current
           IN  Deliver(e, HandleBlur(compareEventNode, e, inner))
        /\ activeElement' = (IF relatedTarget = Outside THEN "none" ELSE relatedTarget)
        /\ pendingFocus' = (relatedTarget # Outside)

MouseDown == Dispatch([kind |-> "mousedown"], HandleMouseDown(Current))

\* A click on the disclosure's activator button.
ClickActions ==
    /\ DisclosureMarkup(props, context, actionsMenuVisible).markup = "Popover"
    /\ Dispatch([kind |-> "clickActions"],
                BubbleToRoot(StopPropagation(HandleActionsClick(Current))))

\* A click inside the inline actions, whose wrapper stops it.
ClickShortcutAction ==
    /\ ActionsMarkup(props, context) # "null"
    /\ Dispatch([kind |-> "clickShortcutAction"], BubbleToRoot(StopPropagation(Current)))

\* The Popover asks to be closed.
CloseRequest ==
    /\ DisclosureMarkup(props, context, actionsMenuVisible).markup = "Popover"
    /\ Dispatch([kind |-> "closeRequest"], HandleCloseRequest(Current))

\* ------------------------------------------------------------ environment
\* The list renders with other selectedItems.
ChangeSelectedItems ==
    \E selectedItems \in SelectedItemsValues :
        Render(props, [context EXCEPT !.selectedItems = selectedItems])

\* The list enters or leaves selection mode.
ChangeSelectMode ==
    \E selectMode \in BOOLEAN : Render(props, [context EXCEPT !.selectMode = selectMode])

\* The list starts or stops loading.
ChangeLoading ==
    \E loading \in BOOLEAN : Render(props, [context EXCEPT !.loading = loading])

\* The parent renders the row with another id.
ChangeId ==
    \E id \in Ids \cup {NoId} : Render([props EXCEPT !.id = id], context)

\* The list renders with another onSelectionChange, or without one.
ChangeOnSelectionChange ==
    \E onSelectionChange \in Callbacks \cup {NoCallback} :
        Render(props, [context EXCEPT !.onSelectionChange = onSelectionChange])

\* The parent renders the row with another url.
ChangeUrl ==
    \E url \in Urls \cup {NoUrl} :
        /\ HasActivation([props EXCEPT !.url = url])
        /\ Render([props EXCEPT !.url = url], context)

\* The parent renders the row with another onClick.
ChangeOnClick ==
    \E onClick \in Callbacks \cup {noop} :
        /\ HasActivation([props EXCEPT !.onClick = onClick])
        /\ Render([props EXCEPT !.onClick = onClick], context)

\* The parent renders the row with other shortcutActions.
ChangeShortcutActions ==
    \E shortcutActions \in ShortcutActionsValues :
        Render([props EXCEPT !.shortcutActions = shortcutActions], context)

\* The parent renders the row with another persistActions.
ChangePersistActions ==
    \E persistActions \in BOOLEAN :
        Render([props EXCEPT !.persistActions = persistActions], context)

\* --------------------------------------------------------- ContextualSaveBar
\* ContextualSaveBarProps: message, saveAction, discardAction,
\* alignContentFlush.
Messages == {"Unsaved changes", "Unsaved product"}
SaveBarActions == {"save", "discard"}
Descriptors ==
    [message : Messages, saveAction : SaveBarActions,
     discardAction : SaveBarActions, alignContentFlush : BOOLEAN]

\* No render yet: no props, and no dependency list to compare with.
NoDescriptor == "none"

SaveBarDepsWithoutFlush(d) == <<d.message, d.saveAction, d.discardAction>>

\* The dependency list of the first effect.
SaveBarDeps(d) == <<d.message, d.saveAction, d.discardAction, d.alignContentFlush>>

\* frame.setContextualSaveBar({message, saveAction, discardAction,
\* alignContentFlush})
SetContextualSaveBar(d) == [call |-> "setContextualSaveBar", descriptor |-> d]
\* frame.removeContextualSaveBar()
RemoveContextualSaveBar == [call |-> "removeContextualSaveBar", descriptor |-> NoDescriptor]

\* The first effect after a render with props d: it runs when it has not run
\* yet or when a dependency differs from the one of its last run.
SetEffect(d, deps, calls) ==
    IF deps = NoDescriptor \/ SaveBarDeps(d) # deps
    THEN Append(calls, SetContextualSaveBar(d))
    ELSE calls

\* The cleanup of the second effect, which runs at unmount only (deps []).
RemoveEffect(calls) == Append(calls, RemoveContextualSaveBar)

NoSaveBar == [status |-> "unmounted", props |-> NoDescriptor, deps |-> NoDescriptor]

\* A render of the ContextualSaveBar with props d, and its effects.
RenderSaveBar(d) ==
    /\ saveBar' = [status |-> "mounted", props |-> d, deps |-> SaveBarDeps(d)]
    /\ frameCalls' = SetEffect(d, saveBar.deps, frameCalls)
    /\ UNCHANGED <<props, context, state, closures, focus, everFocused, event, effects,
                   appBridge, loadings, frameLoading, bridgeLoading>>

MountSaveBar ==
    \E d \in Descriptors :
        /\ saveBar.status = "unmounted"
        /\ RenderSaveBar(d)

\* The parent renders the mounted ContextualSaveBar again, with the same or
\* with other props.
UpdateSaveBar ==
    \E d \in Descriptors :
        /\ saveBar.status = "mounted"
        /\ Len(frameCalls) < MaxFrameCalls
        /\ RenderSaveBar(d)

UnmountSaveBar ==
    /\ saveBar.status = "mounted"
    /\ saveBar' = [saveBar EXCEPT !.status = "removed"]
    /\ frameCalls' = RemoveEffect(frameCalls)
    /\ UNCHANGED <<props, context, state, closures, focus, everFocused, event, effects,
                   appBridge, loadings, frameLoading, bridgeLoading>>

\* ------------------------------------------------------------------- Loading
\* `appBridge == null`: the page runs outside a host.
NoAppBridge == "null"
AppBridges == {NoAppBridge, "appBridge"}
Instances == 1..NumLoading

NoLoading ==
    [status |-> "unmounted", appBridge |-> NoAppBridge, current |-> "undefined",
     calls |-> <<>>]

\* The effect of the mount of a Loading rendered with appBridge `bridge`; the
\* cleanup it returns keeps that appBridge.
StartEffect(bridge) ==
    IF bridge = NoAppBridge
    THEN [status |-> "mounted", appBridge |-> bridge, current |-> "undefined",
          calls |-> <<"frame.startLoading">>]
    ELSE [status |-> "mounted", appBridge |-> bridge, current |-> "created",
          calls |-> <<"dispatch(START)">>]

StopEffectReadsContext(instance, bridge) ==
    [instance EXCEPT
        !.status = "removed",
        !.calls = IF bridge = NoAppBridge THEN Append(@, "frame.stopLoading")
                  ELSE IF instance.current # "undefined" THEN Append(@, "dispatch(STOP)")
                  ELSE @]

\* The cleanup at unmount, while the context holds appBridge `bridge`.
StopEffect(instance, bridge) ==
    [instance EXCEPT
        !.status = "removed",
        !.calls = IF instance.appBridge = NoAppBridge THEN Append(@, "frame.stopLoading")
                  ELSE IF instance.current # "undefined" THEN Append(@, "dispatch(STOP)")
                  ELSE @]

\* The number of calls `call` in a sequence of calls.
RECURSIVE Count(_, _)
Count(calls, call) ==
    IF calls = <<>> THEN 0
    ELSE (IF Head(calls) = call THEN 1 ELSE 0) + Count(Tail(calls), call)

\* What the Frame and the host bridge receive when an instance goes from
\* the calls `before` to the calls `after`.
Receive(before, after) ==
    LET more(call) == Count(after, call) - Count(before, call) IN
    /\ frameLoading' = [started |-> frameLoading.started + more("frame.startLoading"),
                        stopped |-> frameLoading.stopped + more("frame.stopLoading")]
    /\ bridgeLoading' = [START |-> bridgeLoading.START + more("dispatch(START)"),
                         STOP |-> bridgeLoading.STOP + more("dispatch(STOP)")]

MountLoading ==
    \E i \in Instances :
        /\ loadings[i].status = "unmounted"
        /\ loadings' = [loadings EXCEPT ![i] = StartEffect(appBridge)]
        /\ Receive(loadings[i].calls, loadings'[i].calls)
        /\ UNCHANGED <<props, context, state, closures, focus, everFocused, event,
                       effects, saveBar, frameCalls, appBridge>>

UnmountLoading ==
    \E i \in Instances :
        /\ loadings[i].status = "mounted"
        /\ loadings' = [loadings EXCEPT ![i] = StopEffect(loadings[i], appBridge)]
        /\ Receive(loadings[i].calls, loadings'[i].calls)
        /\ UNCHANGED <<props, context, state, closures, focus, everFocused, event,
                       effects, saveBar, frameCalls, appBridge>>

\* The provider gives another appBridge; the mounted instances render again,
\* their effect (deps []) does not run.
ChangeAppBridge ==
    \E bridge \in AppBridges \ {appBridge} :
        /\ appBridge' = bridge
        /\ UNCHANGED <<props, context, state, closures, focus, everFocused, event,
                       effects, saveBar, frameCalls, loadings, frameLoading,
                       bridgeLoading>>

\* No ContextualSaveBar and no Loading is mounted.
NoFrameComponents ==
    /\ saveBar = NoSaveBar
    /\ frameCalls = <<>>
    /\ appBridge = NoAppBridge
    /\ loadings = [i \in Instances |-> NoLoading]
    /\ frameLoading = [started |-> 0, stopped |-> 0]
    /\ bridgeLoading = [START |-> 0, STOP |-> 0]

\* ---------------------------------------------------------- specifications
\* Selection: a row without shortcut actions in a list that is not loading,
\* whose selection and mode change.
Init ==
    \E p \in PropsValues, c \in ContextValues :
        /\ p.shortcutActions = "undefined"
        /\ ~p.persistActions
        /\ ~c.loading
        /\ Mount(p, c)
        /\ NoFrameComponents

Next ==
    \/ Click
    \/ KeyUp
    \/ ChangeCheckbox
    \/ ClickLargerSelectionArea
    \/ FocusAnchor
    \/ MouseDown
    \/ ChangeSelectedItems
    \/ ChangeSelectMode

Spec == Init /\ [][Next]_vars

\* Activation: a row without shortcut actions in a list that is not
\* selectable and has no selectedItems; the row's id, url and onClick and the
\* list's mode change.
InitActivation ==
    \E p \in PropsValues, c \in ContextValues :
        /\ p.shortcutActions = "undefined"
        /\ ~p.persistActions
        /\ ~c.loading
        /\ ~c.selectable
        /\ c.selectedItems.tag = "undefined"
        /\ Mount(p, c)
        /\ NoFrameComponents

NextActivation ==
    \/ Click
    \/ KeyUp
    \/ ChangeId
    \/ ChangeUrl
    \/ ChangeOnClick
    \/ ChangeSelectMode

SpecActivation == InitActivation /\ [][NextActivation]_vars

\* Disclosure: a selectable row with a url, whose shortcut actions and
\* loading flag change.
InitDisclosure ==
    \E p \in PropsValues, c \in ContextValues :
        /\ p.id \in Ids
        /\ p.url \in Urls
        /\ c.selectable
        /\ c.onSelectionChange \in Callbacks
        /\ c.selectedItems.tag = "array"
        /\ Mount(p, c)
        /\ NoFrameComponents

NextDisclosure ==
    \/ ClickActions
    \/ CloseRequest
    \/ ClickShortcutAction
    \/ Blur
    \/ Click
    \/ KeyUp
    \/ ChangeCheckbox
    \/ ClickLargerSelectionArea
    \/ FocusAnchor
    \/ Focus
    \/ MouseDown
    \/ ChangeShortcutActions
    \/ ChangePersistActions
    \/ ChangeLoading

SpecDisclosure == InitDisclosure /\ [][NextDisclosure]_vars

\* Selection controller: a navigation row without shortcut actions in a
\* selectable list that is not loading and not in selection mode; the row's
\* id and the list's onSelectionChange and selectedItems change.
InitSelection ==
    \E p \in PropsValues, c \in ContextValues :
        /\ p.shortcutActions = "undefined"
        /\ ~p.persistActions
        /\ p.onClick = noop
        /\ ~c.loading
        /\ c.selectable
        /\ ~c.selectMode
        /\ Mount(p, c)
        /\ NoFrameComponents

NextSelection ==
    \/ ChangeCheckbox
    \/ ClickLargerSelectionArea
    \/ FocusAnchor
    \/ Focus
    \/ MouseDown
    \/ ChangeId
    \/ ChangeOnSelectionChange
    \/ ChangeSelectedItems

SpecSelection == InitSelection /\ [][NextSelection]_vars

\* ------------------------------------------------------------------ claims
\* The row has an id and the list an onSelectionChange.
CanSelect == props.id # NoId /\ context.onSelectionChange # NoCallback

\* C1 (as claimed): after a click on the row in selection mode,
\* onSelectionChange was called exactly once, with the negation of
\* isSelected() under the current selection context and with the row's id,
\* propagation was stopped and onClick was not called.
C1_ClickTogglesCurrentSelection ==
    (event.kind = "click" /\ context.selectMode /\ CanSelect) =>
        /\ effects.selection = << <<context.onSelectionChange, Not(selected), props.id>> >>
        /\ effects.stopped
        /\ effects.activation = <<>>

\* C2: the row is selected if and only if selectedItems is the "All"
\* sentinel or an array that contains the row's id; so it is selected for
\* every id under the sentinel and not selected without selectedItems.
C2_SelectedIffAllOrMember ==
    /\ Truthy(selected) <=>
           \/ context.selectedItems.tag = SELECT_ALL_ITEMS
           \/ context.selectedItems.tag = "array" /\ props.id \in context.selectedItems.items
    /\ context.selectedItems.tag = "undefined" => ~Truthy(selected)

\* C2 witness: a row whose id no array of the context can hold is selected
\* under the sentinel, after the list changed its selectedItems.
C2_Witness ==
    /\ event.kind = "render"
    /\ context.selectedItems.tag = SELECT_ALL_ITEMS
    /\ props.id = NoId
    /\ Truthy(selected)

\* C3: after select(true) on a row with an id and an onSelectionChange,
\* onSelectionChange was called exactly once, with (true, id), and focused
\* and focusedInner are true.
C3_SelectTrueCallsOnceAndFocuses ==
    (event.kind = "change" /\ event.value /\ CanSelect) =>
        /\ effects.selection = << <<context.onSelectionChange, TRUE, props.id>> >>
        /\ focused
        /\ focusedInner

\* C3 witness: select(true) has called the onSelectionChange the list
\* supplied in a later render.
C3_Witness ==
    /\ event.kind = "change"
    /\ event.value
    /\ CanSelect
    /\ Len(effects.selection) = 1
    /\ handleLargerSelectionArea.handleSelection.onSelectionChange = NoCallback

\* C4: select(value) without an onSelectionChange or without an id calls no
\* callback and leaves focused, focusedInner and actionsMenuVisible as they
\* were.
C4_SelectWithoutCallbackOrIdIsNoOp ==
    [][(event'.kind = "change" /\ ~CanSelect) =>
           /\ effects'.selection = <<>>
           /\ effects'.activation = <<>>
           /\ UNCHANGED <<focused, focusedInner, actionsMenuVisible>>]_vars

\* C4 witness: select was called on a focused row without an id, whose list
\* has an onSelectionChange.
C4_Witness ==
    /\ event.kind = "change"
    /\ props.id = NoId
    /\ context.onSelectionChange # NoCallback
    /\ focused
    /\ ~focusedInner
    /\ effects.selection = <<>>

\* C5: after a click outside the anchor on a row with a url, not in
\* selection mode: with ctrl or meta held, exactly one window.open of the url
\* and no anchor.click(); with neither held and an anchor in the row, one
\* anchor.click() and no window.open.
C5_ClickOpensOrFollows ==
    (event.kind = "click" /\ ~context.selectMode /\ event.target # "anchor"
        /\ props.url # NoUrl) =>
        /\ (event.ctrlKey \/ event.metaKey) =>
               effects.opened = <<props.url>> /\ effects.anchorClicks = 0
        /\ (~event.ctrlKey /\ ~event.metaKey /\ event.anchor) =>
               effects.opened = <<>> /\ effects.anchorClicks = 1

\* C5 witness: a meta-click on a row with a url and an anchor opened the url.
C5_Witness ==
    /\ event.kind = "click"
    /\ ~context.selectMode
    /\ event.target = "content"
    /\ event.metaKey
    /\ event.anchor
    /\ effects.opened = <<props.url>>
    /\ effects.anchorClicks = 0

\* C6: after a click whose target is the row's anchor, not in selection
\* mode, the handler has called no onClick, no window.open, no
\* anchor.click(), no onSelectionChange and no stopPropagation.
C6_AnchorClickNotIntercepted ==
    (event.kind = "click" /\ ~context.selectMode /\ event.target = "anchor") =>
        effects = NoEffects

\* C6 witness: a ctrl-click on the anchor of a row with a url and an onClick.
C6_Witness ==
    /\ event.kind = "click"
    /\ ~context.selectMode
    /\ event.target = "anchor"
    /\ event.ctrlKey
    /\ props.url # NoUrl
    /\ props.onClick # noop
    /\ handleClick.onClick = props.onClick
    /\ effects = NoEffects

\* C7 (as claimed): after a key-up, onSelectionChange was not called, and
\* the row's onClick was called, once and without argument, exactly when the
\* key is Enter and the list is not in selection mode.
C7_EnterCallsOnClick ==
    event.kind = "keyup" =>
        /\ effects.selection = <<>>
        /\ effects.activation =
               IF event.key = "Enter" /\ ~context.selectMode /\ props.onClick # noop
               THEN <<[callback |-> props.onClick, args |-> <<>>]>>
               ELSE <<>>

\* C8: actionsMenuVisible is false at mount; a click on the disclosure's
\* activator negates it, and a close request makes it false, whatever
\* persistActions is.
C8_DisclosureTransitions ==
    /\ ~actionsMenuVisible
    /\ [][/\ event'.kind = "clickActions" => actionsMenuVisible' = ~actionsMenuVisible
          /\ event'.kind = "closeRequest" => ~actionsMenuVisible']_vars

\* C8 witness: the disclosure was closed by a second click on its activator.
C8_Witness ==
    /\ event.kind = "clickActions"
    /\ ~actionsMenuVisible

\* C9 (as claimed): actionsMenuVisible is true only if shortcutActions is
\* non-empty and loading is false.
C9_VisibleOnlyWithActionsAndNotLoading ==
    actionsMenuVisible => props.shortcutActions = "some" /\ ~context.loading

\* C10 (as claimed): with shortcutActions absent or zero-length, or loading
\* true, neither actionsMarkup nor disclosureMarkup is rendered.
C10_NoMarkupWithoutActionsOrWhileLoading ==
    (props.shortcutActions \in {"undefined", "empty"} \/ context.loading) =>
        /\ ActionsMarkup(props, context) = "null"
        /\ DisclosureMarkup(props, context, actionsMenuVisible).markup = "null"

\* Focus: a row without selection handle and shortcut actions, on which the
\* focus moves; the row's url and onClick change.
InitFocus ==
    \E p \in PropsValues, c \in ContextValues :
        /\ p.shortcutActions = "undefined"
        /\ ~p.persistActions
        /\ p.id \in Ids
        /\ ~c.loading
        /\ ~c.selectable
        /\ ~c.selectMode
        /\ c.onSelectionChange = NoCallback
        /\ c.selectedItems.tag = "undefined"
        /\ Mount(p, c)
        /\ NoFrameComponents

NextFocus ==
    \/ FocusAnchor
    \/ Focus
    \/ Blur
    \/ MouseDown
    \/ ChangeUrl
    \/ ChangeOnClick

SpecFocus == InitFocus /\ [][NextFocus]_vars

\* C11 (as claimed): a blur whose relatedTarget is outside the row leaves
\* focused false and focusedInner as it was, whichever element lost the
\* focus.
C11_BlurOutsideKeepsFocusedInner ==
    [][(event'.kind = "blur" /\ ~Contains(event'.relatedTarget)) =>
           /\ ~focused'
           /\ focusedInner' = focusedInner]_vars

\* The comparison predicate as the claim states it, on the row's current
\* onClick: the target is the root node (callback rows) or an anchor
\* (navigation-only rows).
CurrentPredicate(e) ==
    IF props.onClick # noop THEN e.target = Root ELSE e.tagName = "a"

\* C12 (as claimed): a blur whose relatedTarget is inside the row sets
\* focusedInner and leaves focused as it was when the comparison predicate
\* holds, and changes neither flag when it does not.
C12_BlurInsideFollowsPredicate ==
    [][(event'.kind = "blur" /\ Contains(event'.relatedTarget)) =>
           IF CurrentPredicate(event')
           THEN focusedInner' /\ focused' = focused
           ELSE UNCHANGED <<focused, focusedInner>>]_vars

\* C15: the focus of the primary element leaves focused true and
\* focusedInner false; another focus leaves focused true and focusedInner as
\* it was; a mouse-down leaves focusedInner true and focused as it was; none
\* of them changes actionsMenuVisible or calls anything.
C15_FocusHandlers ==
    [][/\ event'.kind = "focusAnchor" => focused' /\ ~focusedInner'
       /\ event'.kind = "focus" => focused' /\ focusedInner' = focusedInner
       /\ event'.kind = "mousedown" => focusedInner' /\ focused' = focused
       /\ event'.kind \in {"focusAnchor", "focus", "mousedown"} =>
              /\ actionsMenuVisible' = actionsMenuVisible
              /\ effects' = NoEffects]_vars

\* C15 witness: a focus event left focusedInner true, with the disclosure
\* open.
C15_Witness ==
    /\ event.kind = "focus"
    /\ focused
    /\ focusedInner
    /\ actionsMenuVisible

\* C16 (as claimed): whenever focusedInner is true, focused is or has been
\* true since mount.
C16_FocusedInnerAfterFocused == focusedInner => everFocused

\* The events of the Action Disclosure.
DisclosureEvents == {"clickActions", "closeRequest"}
\* The events of the focus, blur, mouse-down, click, key and selection
\* handlers.
OtherEvents ==
    {"focusAnchor", "focus", "blur", "mousedown", "click", "keyup", "change",
     "clickLargerSelectionArea"}

\* C17: a toggle or a close request leaves focused and focusedInner as they
\* were and calls neither onSelectionChange nor onClick; every focus, blur,
\* mouse-down, click, key and selection event leaves actionsMenuVisible as
\* it was.
C17_DisclosureIndependent ==
    [][/\ event'.kind \in DisclosureEvents =>
              /\ UNCHANGED <<focused, focusedInner>>
              /\ effects'.selection = <<>>
              /\ effects'.activation = <<>>
       /\ event'.kind \in OtherEvents => actionsMenuVisible' = actionsMenuVisible]_vars

\* C17 witness: a close request closed the disclosure of a focused row.
C17_Witness ==
    /\ event.kind = "closeRequest"
    /\ focused
    /\ focusedInner
    /\ ~actionsMenuVisible

\* C18 (as claimed): after a click outside an anchor on a row with an
\* onClick, not in selection mode, onClick was called exactly once, with the
\* row's id, also when the click landed on the inner button.
C18_ClickCallsOnClickOnce ==
    (event.kind = "click" /\ ~context.selectMode /\ props.onClick # noop
        /\ event.target # "anchor") =>
        effects.activation = <<[callback |-> props.onClick, args |-> <<props.id>>]>>

\* C19 (as claimed): after a click outside the anchor and the inner button,
\* not in selection mode, the row's current onClick was called with the
\* current id; after an Enter, the current onClick was called.
C19_HandlersUseCurrentProps ==
    /\ (event.kind = "click" /\ ~context.selectMode /\ props.onClick # noop
           /\ event.target = "content") =>
           effects.activation = <<[callback |-> props.onClick, args |-> <<props.id>>]>>
    /\ (event.kind = "keyup" /\ event.key = "Enter" /\ ~context.selectMode
           /\ props.onClick # noop) =>
           \A i \in DOMAIN effects.activation :
               effects.activation[i].callback = props.onClick

\* The clicks that land inside the handle, the inline actions or the
\* disclosure.
StoppedEvents == {"change", "clickLargerSelectionArea", "clickShortcutAction", "clickActions"}

\* C20: a change of the checkbox calls onSelectionChange exactly once, with
\* the checkbox's new value; a click inside the checkbox wrapper, the larger
\* selection area, the inline actions or the disclosure has its propagation
\* stopped and calls neither onClick nor window.open nor anchor.click().
C20_InnerClicksStopped ==
    /\ (event.kind = "change" /\ CanSelect) =>
           effects.selection = << <<context.onSelectionChange, event.value, props.id>> >>
    /\ event.kind \in StoppedEvents =>
           /\ effects.stopped
           /\ effects.activation = <<>>
           /\ effects.opened = <<>>
           /\ effects.anchorClicks = 0

\* C20 witness: in selection mode, on a row with an onClick, the checkbox
\* was unchecked and onSelectionChange called once.
C20_Witness ==
    /\ event.kind = "change"
    /\ ~event.value
    /\ context.selectMode
    /\ Truthy(selected)
    /\ props.onClick # noop
    /\ Len(effects.selection) = 1
    /\ effects.stopped

\* A page with one idle row, on which the frame components mount and
\* unmount.
IdleRow ==
    \E p \in PropsValues, c \in ContextValues :
        /\ p.id \in Ids
        /\ p.url \in Urls
        /\ p.onClick = noop
        /\ p.shortcutActions = "undefined"
        /\ ~p.persistActions
        /\ ~c.loading
        /\ ~c.selectable
        /\ ~c.selectMode
        /\ c.onSelectionChange = NoCallback
        /\ c.selectedItems.tag = "undefined"
        /\ Mount(p, c)

\* ContextualSaveBar: one instance, from before its mount to after its
\* unmount.
InitSaveBar ==
    /\ IdleRow
    /\ NoFrameComponents

NextSaveBar ==
    \/ MountSaveBar
    \/ UpdateSaveBar
    \/ UnmountSaveBar

SpecSaveBar == InitSaveBar /\ [][NextSaveBar]_vars

\* Loading: the instances mount and unmount in any order, while the
\* appBridge of the context changes.
InitLoading ==
    /\ IdleRow
    /\ saveBar = NoSaveBar
    /\ frameCalls = <<>>
    /\ appBridge \in AppBridges
    /\ loadings = [i \in Instances |-> NoLoading]
    /\ frameLoading = [started |-> 0, stopped |-> 0]
    /\ bridgeLoading = [START |-> 0, STOP |-> 0]

NextLoading ==
    \/ MountLoading
    \/ UnmountLoading
    \/ ChangeAppBridge

SpecLoading == InitLoading /\ [][NextLoading]_vars

\* The calls the Frame received from the ContextualSaveBar, but the last.
Front(calls) == SubSeq(calls, 1, Len(calls) - 1)

\* C13: the ContextualSaveBar calls setContextualSaveBar at mount and after
\* each change of its props, so that while it is mounted the Frame received
\* only set calls, the last of them with the current props, each with other
\* props than the one before; at unmount it calls removeContextualSaveBar,
\* once, and nothing after it.
C13_SaveBarRegistersAndClears ==
    /\ saveBar.status = "unmounted" => frameCalls = <<>>
    /\ saveBar.status = "mounted" =>
           /\ frameCalls # <<>>
           /\ \A i \in DOMAIN frameCalls : frameCalls[i].call = "setContextualSaveBar"
           /\ frameCalls[Len(frameCalls)] = SetContextualSaveBar(saveBar.props)
           /\ \A i \in DOMAIN frameCalls :
                  i > 1 => frameCalls[i].descriptor # frameCalls[i - 1].descriptor
    /\ saveBar.status = "removed" =>
           /\ Len(frameCalls) >= 2
           /\ frameCalls[Len(frameCalls)] = RemoveContextualSaveBar
           /\ \A i \in DOMAIN Front(frameCalls) :
                  frameCalls[i].call = "setContextualSaveBar"
           /\ frameCalls[Len(frameCalls) - 1] = SetContextualSaveBar(saveBar.props)

\* C13 witness: a ContextualSaveBar whose alignContentFlush changed after
\* the mount was unmounted.
C13_Witness ==
    /\ saveBar.status = "removed"
    /\ Len(frameCalls) = 3
    /\ frameCalls[1].descriptor.alignContentFlush # frameCalls[2].descriptor.alignContentFlush
    /\ frameCalls[1].descriptor.message = frameCalls[2].descriptor.message

\* The instances that are mounted.
Mounted == {i \in Instances : loadings[i].status = "mounted"}
\* The backend an instance started on.
Backend(call) == IF call \in {"frame.startLoading", "frame.stopLoading"} THEN "frame" ELSE "bridge"

\* C14: an unmounted instance has called nothing, a mounted one has issued
\* one start, a removed one that start and then one stop on the same
\* backend; the start went to the frame exactly when the appBridge was
\* absent at the mount; frame starts minus frame stops is the number of
\* mounted instances that started on the frame (all of them when no
\* instance saw a bridge), and never negative.
C14_LoadingStartsAndStopsMatch ==
    /\ \A i \in Instances :
           LET calls == loadings[i].calls IN
           /\ loadings[i].status = "unmounted" => calls = <<>>
           /\ loadings[i].status = "mounted" =>
                  calls \in {<<"frame.startLoading">>, <<"dispatch(START)">>}
           /\ loadings[i].status = "removed" =>
                  calls \in {<<"frame.startLoading", "frame.stopLoading">>,
                             <<"dispatch(START)", "dispatch(STOP)">>}
           /\ calls # <<>> =>
                  (Backend(calls[1]) = "frame" <=> loadings[i].appBridge = NoAppBridge)
    /\ frameLoading.started - frameLoading.stopped
           = Cardinality({i \in Mounted : loadings[i].appBridge = NoAppBridge})
    /\ bridgeLoading.START - bridgeLoading.STOP
           = Cardinality({i \in Mounted : loadings[i].appBridge # NoAppBridge})
    /\ frameLoading.started >= frameLoading.stopped
    /\ bridgeLoading.START = 0 =>
           frameLoading.started - frameLoading.stopped = Cardinality(Mounted)

\* C14 witness: an instance mounted without a bridge was unmounted after
\* the bridge appeared, while another instance is still mounted.
C14_Witness ==
    /\ appBridge # NoAppBridge
    /\ bridgeLoading.START = 0
    /\ frameLoading.stopped = 1
    /\ frameLoading.started = 2

====
